---- MODULE Spec2Model ----
(***************************************************************************)
(* Model of the fixed-size BitSet of src/src/bitset.rs on a target whose   *)
(* usize is 8 bytes wide.                                                  *)
(*                                                                         *)
(* An unsigned integer of width w is represented by the set of the         *)
(* positions of its one-bits, a subset of 0..w-1 (bit 0 = least            *)
(* significant).  The bitwise operators of the code become set operations  *)
(* on that representation: | is union, & is intersection, ! is the         *)
(* complement within the width, << adds to every position and drops what   *)
(* leaves the width, count_ones is the cardinality.                        *)
(***************************************************************************)
EXTENDS Integers, Sequences, FiniteSets

VARIABLES
    blocks,   \* BitSet.blocks: the sequence of usize blocks (index 1 = blocks[0])
    size,     \* BitSet.size
    phase,    \* "none": no BitSet, "live": a BitSet exists, "moved": consumed by try_from
    origin,   \* the constructor call that made the BitSet, while no set() has touched it
    nsets,    \* number of set() calls made on the BitSet
    last      \* the last call made and what it returned

vars == <<blocks, size, phase, origin, nsets, last>>

----------------------------------------------------------------------------
(* Bounds of the model *)

\* new(size) is tried for sizes around every multiple k * block_size, k <= MaxBlocks
MaxBlocks == 2
\* from(value) is tried for values with at most MaxOnes one-bits (and for MAX)
MaxOnes == 2
\* at most MaxSets calls of set() are made on one BitSet
MaxSets == 2

----------------------------------------------------------------------------
(* The integer types *)

\* size_of::<usize>() on the modelled target
UsizeBytes == 8

Types == {"u8", "u16", "u32", "u64", "u128", "usize"}

size_of(t) ==
    CASE t = "u8" -> 1
      [] t = "u16" -> 2
      [] t = "u32" -> 4
      [] t = "u64" -> 8
      [] t = "u128" -> 16
      [] t = "usize" -> UsizeBytes

\* the bit width of type t
bits_of(t) == size_of(t) * 8

\* t::MAX
MAX(t) == 0 .. (bits_of(t) - 1)

\* x << n in an unsigned type of w bits
Shl(x, n, w) == {c \in {b + n : b \in x} : c < w}

\* x | y
BitOr(x, y) == x \cup y

\* x & y
BitAnd(x, y) == x \cap y

\* !x in an unsigned type of w bits
Not(x, w) == (0 .. (w - 1)) \ x

\* x.count_ones()
count_ones(x) == Cardinality(x)

Max2(a, b) == IF a >= b THEN a ELSE b

----------------------------------------------------------------------------
(* Private functions of BitSet *)

block_size == UsizeBytes * 8

\* blocks_number rounding up also when there is no remainder
blocks_number_extra(sz) ==
    LET div == sz \div block_size
    IN  div + 1

blocks_number(sz) ==
    LET div == sz \div block_size
        rem == sz % block_size
    IN  IF rem = 0 THEN div ELSE div + 1

\* the panic message of assert_position, as the pieces format! joins
PositionMessage(position, sz) ==
    <<"Bit position [", position, "] is outside available range: [0, ", sz - 1, "]">>

\* assert_position accepting the position one past the end
assert_position_past_end(self, position) == position > self.size

\* TRUE when assert_position panics
assert_position(self, position) == position >= self.size

get_bit_position(position) ==
    [block_number |-> position \div block_size,
     block_position |-> position % block_size]

make_bitmask(position) == Shl({0}, position, block_size)

\* indexing a Vec panics when the index is not below its length
IndexMessage == <<"index out of bounds">>

----------------------------------------------------------------------------
(* Constructors *)

ZeroSizeMessage == <<"Creating BitSet with zero bits is not allowed.">>

\* new without the check for zero bits
new_without_check(sz) ==
    [tag |-> "ok",
     self |-> [blocks |-> [i \in 1 .. blocks_number(sz) |-> {}], size |-> sz]]

new(sz) ==
    IF sz = 0
    THEN [tag |-> "panic", msg |-> ZeroSizeMessage]
    ELSE [tag |-> "ok",
          self |-> [blocks |-> [i \in 1 .. blocks_number(sz) |-> {}], size |-> sz]]

----------------------------------------------------------------------------
(* Basic functions *)

get(self, position) ==
    IF assert_position(self, position)
    THEN <<"panic", PositionMessage(position, self.size)>>
    ELSE LET bit_position == get_bit_position(position)
             bitmask == make_bitmask(bit_position.block_position)
         IN  IF bit_position.block_number >= Len(self.blocks)
             THEN <<"panic", IndexMessage>>
             ELSE <<"ok", BitAnd(self.blocks[bit_position.block_number + 1], bitmask) /= {}>>

\* set without the call of assert_position
set_without_assert(self, position, value) ==
    LET bit_position == get_bit_position(position)
        bitmask == make_bitmask(bit_position.block_position)
        n == bit_position.block_number + 1
    IN  IF bit_position.block_number >= Len(self.blocks)
        THEN [tag |-> "panic", msg |-> IndexMessage, self |-> self]
        ELSE [tag |-> "ok", msg |-> <<>>,
              self |-> [self EXCEPT !.blocks[n] =
                           IF value = TRUE
                           THEN BitOr(self.blocks[n], bitmask)
                           ELSE BitAnd(self.blocks[n], Not(bitmask, block_size))]]

\* set hard-coding block index 0
set_in_block_0(self, position, value) ==
    IF assert_position(self, position)
    THEN [tag |-> "panic", msg |-> PositionMessage(position, self.size), self |-> self]
    ELSE LET bit_position == get_bit_position(position)
             bitmask == make_bitmask(bit_position.block_position)
         IN  [tag |-> "ok", msg |-> <<>>,
              self |-> [self EXCEPT !.blocks[1] =
                           IF value = TRUE
                           THEN BitOr(self.blocks[1], bitmask)
                           ELSE BitAnd(self.blocks[1], Not(bitmask, block_size))]]

set(self, position, value) ==
    IF assert_position(self, position)
    THEN [tag |-> "panic", msg |-> PositionMessage(position, self.size), self |-> self]
    ELSE LET bit_position == get_bit_position(position)
             bitmask == make_bitmask(bit_position.block_position)
             n == bit_position.block_number + 1
         IN  IF bit_position.block_number >= Len(self.blocks)
             THEN [tag |-> "panic", msg |-> IndexMessage, self |-> self]
             ELSE [tag |-> "ok", msg |-> <<>>,
                   self |-> [self EXCEPT !.blocks[n] =
                                IF value = TRUE
                                THEN BitOr(self.blocks[n], bitmask)
                                ELSE BitAnd(self.blocks[n], Not(bitmask, block_size))]]

----------------------------------------------------------------------------
(* Utility functions *)

all(self) == \A i \in 1 .. Len(self.blocks) : self.blocks[i] = MAX("usize")

\* any looking at blocks[0] alone
any_first_block(self) == self.blocks[1] /= {}

any(self) == \E i \in 1 .. Len(self.blocks) : self.blocks[i] /= {}

RECURSIVE SumOnes(_, _)
SumOnes(bs, n) == IF n = 0 THEN 0 ELSE SumOnes(bs, n - 1) + count_ones(bs[n])

\* count looking at blocks[0] alone
count_first_block(self) == SumOnes(self.blocks, 1)

\* the sum is a u32: far from wrapping for the sizes modelled
count(self) == SumOnes(self.blocks, Len(self.blocks))

----------------------------------------------------------------------------
(* From<uint> for BitSet *)

\* usize::from(byte), (*block) as u128: widening keeps the bits
Widen(x) == x

\* value.to_be_bytes() of an n-byte value: byte 1 is the most significant
to_be_bytes(value, n) ==
    [k \in 1 .. n |-> {b - 8 * (n - k) : b \in {x \in value : x \div 8 = n - k}}]

\* slice.chunks(c): consecutive pieces of c elements, the last one maybe shorter
chunks(s, c) ==
    [j \in 1 .. ((Len(s) + c - 1) \div c) |->
        SubSeq(s, (j - 1) * c + 1, IF j * c <= Len(s) THEN j * c ELSE Len(s))]

\* the inner loop of from: block = (block << 8) | byte, over the first n bytes
RECURSIVE BlockOfBytes(_, _)
BlockOfBytes(chunk, n) ==
    IF n = 0 THEN {}
    ELSE BitOr(Shl(BlockOfBytes(chunk, n - 1), 8, block_size), Widen(chunk[n]))

\* blocks.reverse()
reverse(s) == [i \in 1 .. Len(s) |-> s[Len(s) + 1 - i]]

from_u8(value) == [blocks |-> <<Widen(value)>>, size |-> size_of("u8") * 8]

\* from without the final blocks.reverse()
from_uint_unreversed(t, value) ==
    LET bytes_per_block == UsizeBytes
        value_bytes == to_be_bytes(value, size_of(t))
        pieces == chunks(value_bytes, bytes_per_block)
        pushed == [j \in 1 .. Len(pieces) |-> BlockOfBytes(pieces[j], Len(pieces[j]))]
    IN  [blocks |-> pushed, size |-> size_of(t) * 8]

from_uint(t, value) ==
    LET bytes_per_block == UsizeBytes
        value_bytes == to_be_bytes(value, size_of(t))
        pieces == chunks(value_bytes, bytes_per_block)
        pushed == [j \in 1 .. Len(pieces) |-> BlockOfBytes(pieces[j], Len(pieces[j]))]
    IN  [blocks |-> reverse(pushed), size |-> size_of(t) * 8]

\* BitSet::from(value) for a value of type t
from(t, value) == IF t = "u8" THEN from_u8(value) ELSE from_uint(t, value)

----------------------------------------------------------------------------
(* ToString for BitSet *)

\* format!("{:0width$b}", block, width): at least width digits, zero padded,
\* most significant digit first
format_bin(block, width) ==
    LET digits == IF block = {} THEN 1 ELSE (CHOOSE b \in block : \A c \in block : c <= b) + 1
        L == Max2(width, digits)
    IN  [i \in 1 .. L |-> IF (L - i) \in block THEN "1" ELSE "0"]

RECURSIVE Concat(_, _)
Concat(ss, n) == IF n = 0 THEN <<>> ELSE Concat(ss, n - 1) \o ss[n]

SliceMessage == <<"attempt to subtract with overflow">>

\* to_string walking the blocks from index 0 up
to_string_unreversed(self) ==
    LET fwd == self.blocks
        res == Concat([i \in 1 .. Len(fwd) |-> format_bin(fwd[i], block_size)], Len(fwd))
    IN  IF Len(res) < self.size
        THEN <<"panic", SliceMessage>>
        ELSE <<"ok", SubSeq(res, Len(res) - self.size + 1, Len(res))>>

to_string(self) ==
    LET rev == reverse(self.blocks)
        res == Concat([i \in 1 .. Len(rev) |-> format_bin(rev[i], block_size)], Len(rev))
    IN  IF Len(res) < self.size
        THEN <<"panic", SliceMessage>>
        ELSE <<"ok", SubSeq(res, Len(res) - self.size + 1, Len(res))>>

----------------------------------------------------------------------------
(* TryFrom<BitSet> for uint *)

ConversionError == "Value stored in BitSet cannot be converted to u8."

\* <t>::try_from(x) for a usize x
try_from_usize(t, x) ==
    IF x \subseteq MAX(t) THEN <<"Ok", x>> ELSE <<"Err", ConversionError>>

\* the accumulation loop: output = (output << block_size) | block, over the
\* first n blocks of bs, in a type of w bits
RECURSIVE Accumulate(_, _, _)
Accumulate(bs, n, w) ==
    IF n = 0 THEN {}
    ELSE BitOr(Shl(Accumulate(bs, n - 1, w), block_size, w), Widen(bs[n]))

try_from(t, value) ==
    LET bsize == UsizeBytes
        output_bytes == size_of(t)
        blocks_needed == Max2(output_bytes \div bsize, 1)
    IN  IF blocks_needed = 1
        THEN IF Len(value.blocks) = 0
             THEN <<"panic", IndexMessage>>
             ELSE try_from_usize(t, value.blocks[1])
        ELSE IF blocks_needed - 1 > Len(value.blocks)
        THEN <<"panic", IndexMessage>>
        ELSE IF \E i \in blocks_needed .. Len(value.blocks) : value.blocks[i] /= {}
        THEN <<"Err", ConversionError>>
        ELSE <<"Ok", Accumulate(value.blocks, blocks_needed - 1, bits_of(t))>>

----------------------------------------------------------------------------
(* The inputs tried *)

\* bit 0 and the lowest bit that each integer type cannot hold
Probes == {0} \cup {bits_of(t) : t \in Types}

InputValues(t) ==
    {v \in SUBSET (Probes \cap MAX(t)) : Cardinality(v) <= MaxOnes} \cup {MAX(t)}

NewSizes == {k * block_size + d : k \in 0 .. MaxBlocks, d \in 0 .. 2}

\* positions at the edges of the first block and of the BitSet, and past its end
Positions(sz) ==
    {p \in {0, block_size - 1, block_size} : p < sz} \cup {p \in {sz - 1, sz, sz + 1} : p >= 0}

----------------------------------------------------------------------------
(* The state machine: the life of one BitSet, from its construction through *)
(* the calls made on it, until try_from consumes it                         *)

Self == [blocks |-> blocks, size |-> size]

NoOrigin == [kind |-> "none", t |-> "", value |-> {}]

Call(op, arg, val, t, res) == [op |-> op, arg |-> arg, val |-> val, t |-> t, res |-> res]

Init ==
    /\ blocks = <<>>
    /\ size = 0
    /\ phase = "none"
    /\ origin = NoOrigin
    /\ nsets = 0
    /\ last = Call("init", 0, FALSE, "", <<"ok">>)

\* let b = BitSet::new(sz)
New(sz) ==
    LET r == new(sz)
    IN  /\ phase = "none"
        /\ nsets' = 0
        /\ IF r.tag = "panic"
           THEN /\ blocks' = <<>>
                /\ size' = 0
                /\ phase' = "none"
                /\ origin' = NoOrigin
                /\ last' = Call("new", sz, FALSE, "", <<"panic", r.msg>>)
           ELSE /\ blocks' = r.self.blocks
                /\ size' = r.self.size
                /\ phase' = "live"
                /\ origin' = [kind |-> "new", t |-> "", value |-> {}]
                /\ last' = Call("new", sz, FALSE, "", <<"ok">>)

\* let b = BitSet::from(value) for a value of type t
From(t, value) ==
    LET r == from(t, value)
    IN  /\ phase = "none"
        /\ blocks' = r.blocks
        /\ size' = r.size
        /\ phase' = "live"
        /\ origin' = [kind |-> "from", t |-> t, value |-> value]
        /\ nsets' = 0
        /\ last' = Call("from", 0, FALSE, t, <<"ok">>)

\* b.get(position)
Get(position) ==
    /\ phase = "live"
    /\ last' = Call("get", position, FALSE, "", get(Self, position))
    /\ UNCHANGED <<blocks, size, phase, origin, nsets>>

\* b.set(position, value)
Set(position, value) ==
    /\ phase = "live"
    /\ nsets < MaxSets
    /\ LET r == set(Self, position, value)
       IN  /\ blocks' = r.self.blocks
           /\ size' = r.self.size
           /\ IF r.tag = "ok"
              THEN /\ last' = Call("set", position, value, "", <<"ok">>)
                   /\ nsets' = nsets + 1
                   /\ origin' = NoOrigin
              ELSE /\ last' = Call("set", position, value, "", <<"panic", r.msg>>)
                   /\ UNCHANGED <<nsets, origin>>
    /\ UNCHANGED phase

\* b.all()
All ==
    /\ phase = "live"
    /\ last' = Call("all", 0, FALSE, "", <<"ok", all(Self)>>)
    /\ UNCHANGED <<blocks, size, phase, origin, nsets>>

\* b.any()
Any ==
    /\ phase = "live"
    /\ last' = Call("any", 0, FALSE, "", <<"ok", any(Self)>>)
    /\ UNCHANGED <<blocks, size, phase, origin, nsets>>

\* b.count()
Count ==
    /\ phase = "live"
    /\ last' = Call("count", 0, FALSE, "", <<"ok", count(Self)>>)
    /\ UNCHANGED <<blocks, size, phase, origin, nsets>>

\* b.to_string()
ToString ==
    /\ phase = "live"
    /\ last' = Call("to_string", 0, FALSE, "", to_string(Self))
    /\ UNCHANGED <<blocks, size, phase, origin, nsets>>

\* <t>::try_from(b): b is moved into the call
TryFrom(t) ==
    /\ phase = "live"
    /\ last' = Call("try_from", 0, FALSE, t, try_from(t, Self))
    /\ phase' = "moved"
    /\ UNCHANGED <<blocks, size, origin, nsets>>

Next ==
    \/ \E sz \in NewSizes : New(sz)
    \/ \E t \in Types : \E value \in InputValues(t) : From(t, value)
    \/ \E position \in Positions(size) : Get(position)
    \/ \E position \in Positions(size) : \E value \in BOOLEAN : Set(position, value)
    \/ All
    \/ Any
    \/ Count
    \/ ToString
    \/ \E t \in Types : TryFrom(t)

Spec == Init /\ [][Next]_vars

----------------------------------------------------------------------------
(* Properties *)

\* bit i of the constructor's value, as get reports a bit
BitOf(value, i) == <<"ok", i \in value>>

\* the BitSet is as from(origin.value) made it and try_from(last.t) was just called
Converted == last.op = "try_from" /\ origin.kind = "from"

\* C1: round trip.  For a BitSet made by from(v) with v of type S, try_from to a
\* type T at least as wide as S returns Ok(v).
C1_RoundTrip ==
    (Converted /\ size_of(last.t) >= size_of(origin.t))
        => last.res = <<"Ok", origin.value>>

\* C2: narrowing.  For a BitSet made by from(v) with v of type S, try_from to a
\* strictly narrower type T returns the conversion error when v > T::MAX and
\* Ok(v as T) otherwise.
C2_Narrowing ==
    (Converted /\ size_of(last.t) < size_of(origin.t))
        => IF origin.value \subseteq MAX(last.t)
           THEN last.res = <<"Ok", origin.value>>
           ELSE last.res = <<"Err", "Value stored in BitSet cannot be converted to u8.">>

\* C3: from(v) for v of type S has size = the bit width of S, and get(i) is
\* bit i of v for every i < size.
C3_FromBits ==
    last.op = "from"
        => /\ size = bits_of(origin.t)
           /\ \A i \in 0 .. (size - 1) : get(Self, i) = BitOf(origin.value, i)

C3_Witness ==
    /\ last.op = "from"
    /\ origin.t = "u128"
    /\ origin.value = {0, 64}
    /\ get(Self, 64) = <<"ok", TRUE>>
    /\ get(Self, 63) = <<"ok", FALSE>>

\* C4: pointwise update.  A set(p, v) with p < size makes get(p) = v, leaves
\* get(q) as it was for every other q < size, and leaves size and the number
\* of blocks as they were.
C4_PointwiseUpdate ==
    [][(last'.op = "set" /\ last'.arg < size)
        => /\ last'.res = <<"ok">>
           /\ get(Self', last'.arg) = <<"ok", last'.val>>
           /\ \A q \in (0 .. (size - 1)) \ {last'.arg} : get(Self', q) = get(Self, q)
           /\ size' = size
           /\ Len(blocks') = Len(blocks)]_vars

C4_Witness ==
    /\ last.op = "set"
    /\ last.arg = 64
    /\ last.val = TRUE
    /\ Len(blocks) = 2
    /\ get(Self, 0) = <<"ok", TRUE>>
    /\ get(Self, 64) = <<"ok", TRUE>>

\* C5: get(pos) and set(pos, v) panic with "Bit position [pos] is outside
\* available range: [0, size-1]" exactly when pos >= size, and the panicking
\* call leaves the blocks and the size as they were.
C5_OutOfRange ==
    [][(last'.op \in {"get", "set"})
        => IF last'.arg >= size
           THEN /\ last'.res = <<"panic", <<"Bit position [", last'.arg,
                                  "] is outside available range: [0, ", size - 1, "]">>>>
                /\ blocks' = blocks
                /\ size' = size
           ELSE last'.res[1] = "ok"]_vars

C5_Witness ==
    /\ last.op = "set"
    /\ last.arg = size
    /\ last.res[1] = "panic"
    /\ size = 66
    /\ nsets > 0
    /\ any(Self)

\* C6: new(size) panics exactly when size = 0; otherwise the BitSet has that
\* size and every bit of it reads false.
C6_New ==
    last.op = "new"
        => /\ (last.res[1] = "panic") <=> (last.arg = 0)
           /\ last.arg >= 1
                => /\ phase = "live"
                   /\ size = last.arg
                   /\ \A pos \in 0 .. (size - 1) : get(Self, pos) = <<"ok", FALSE>>
                   /\ \A i \in 1 .. Len(blocks) : blocks[i] = {}

C6_Witness == last.op = "new" /\ phase = "live" /\ size = 65 /\ Len(blocks) = 2

\* C7: every BitSet has size >= 1 and ceil(size / block_size) blocks.
C7_BlockCount ==
    phase \in {"live", "moved"}
        => /\ size >= 1
           /\ Len(blocks) = (size + 63) \div 64

C7_Witness == phase = "live" /\ nsets > 0 /\ size = 128 /\ Len(blocks) = 2

\* C8: to_string() has exactly size characters, each '0' or '1', and the
\* character at index size-1-i from the start is '1' exactly when get(i).
C8_ToString ==
    last.op = "to_string"
        => /\ last.res[1] = "ok"
           /\ Len(last.res[2]) = size
           /\ \A i \in 0 .. (size - 1) :
                /\ last.res[2][size - i] \in {"0", "1"}
                /\ (last.res[2][size - i] = "1") <=> (get(Self, i) = <<"ok", TRUE>>)

C8_Witness ==
    /\ last.op = "to_string"
    /\ size = 66
    /\ get(Self, 64) = <<"ok", TRUE>>
    /\ get(Self, 0) = <<"ok", TRUE>>
    /\ last.res[2][2] = "1"

\* C9: all() on from(S::MAX) returns true for every type S, and false once any
\* one bit p < size has been cleared.
C9_AllOnMax ==
    (origin.kind = "from" /\ origin.value = MAX(origin.t))
        => /\ last.op = "all" => last.res = <<"ok", TRUE>>
           /\ \A p \in 0 .. (size - 1) : ~all(set(Self, p, FALSE).self)

\* C10: count() is the number of positions i < size with get(i) true, at most
\* size; a set that turns a clear bit on raises it by 1, one that turns a set
\* bit off lowers it by 1.
C10_Count ==
    [][/\ last'.op = "count"
            => /\ last'.res = <<"ok", Cardinality({i \in 0 .. (size - 1) :
                                                      get(Self, i) = <<"ok", TRUE>>})>>
               /\ last'.res[2] <= size
       /\ (last'.op = "set" /\ last'.res = <<"ok">>)
            => count(Self') =
                 count(Self) + (IF get(Self, last'.arg) = <<"ok", last'.val>> THEN 0
                                ELSE IF last'.val THEN 1 ELSE -1)]_vars

C10_Witness == last.op = "count" /\ size = 128 /\ last.res = <<"ok", 127>>

\* get(i) is true on the BitSet
IsSet(i) == get(Self, i) = <<"ok", TRUE>>

\* C11: try_from never truncates.  Whenever try_from to a type T returns
\* Ok(x), bit i of x equals get(i) for every i < size that fits in T and no
\* position >= the width of T is set in the BitSet; when such a position is
\* set the result is Err.
C11_NoTruncation ==
    last.op = "try_from"
        => LET w == bits_of(last.t)
               high == \E i \in w .. (size - 1) : IsSet(i)
           IN  /\ last.res[1] = "Ok"
                    => /\ \A i \in 0 .. ((IF size < w THEN size ELSE w) - 1) :
                            (i \in last.res[2]) <=> IsSet(i)
                       /\ ~high
               /\ high => last.res[1] = "Err"

\* C12: for a target type wider than one block (u128, two blocks), try_from
\* returns Err exactly when some block at an index >= the number of blocks the
\* target needs is nonzero; otherwise it returns Ok of the value assembled from
\* the needed blocks that exist, block k at bit offset k * block_size.
C12_WideTarget ==
    (last.op = "try_from" /\ size_of(last.t) > UsizeBytes)
        => LET needed == size_of(last.t) \div UsizeBytes
               present == IF Len(blocks) < needed THEN Len(blocks) ELSE needed
               beyond == \E k \in needed .. (Len(blocks) - 1) : blocks[k + 1] /= {}
               assembled == UNION {{b + k * block_size : b \in blocks[k + 1]} :
                                      k \in 0 .. (present - 1)}
           IN  IF beyond
               THEN last.res = <<"Err", "Value stored in BitSet cannot be converted to u8.">>
               ELSE last.res = <<"Ok", assembled>>

\* C13: padding invariant.  In every BitSet made by new or from and changed by
\* set calls (out-of-range calls panicking), every bit of the final block at a
\* logical position >= size is 0.
C13_Padding ==
    phase \in {"live", "moved"}
        => LET n == Len(blocks)
           IN  \A b \in blocks[n] : (n - 1) * block_size + b < size

C13_Witness ==
    /\ phase = "live"
    /\ size = 66
    /\ nsets = 1
    /\ blocks[2] = {1}
    /\ last.op = "set"
    /\ last.arg = 66
    /\ last.val = TRUE
    /\ last.res[1] = "panic"

\* C14: any() returns true exactly when at least one block is nonzero, which
\* is exactly when get(i) is true for some i < size; it is false on a fresh
\* new(size) and true after any set(p, true).
C14_Any ==
    /\ last.op = "any"
        => /\ last.res = <<"ok", \E k \in 1 .. Len(blocks) : blocks[k] /= {}>>
           /\ last.res[2] <=> \E i \in 0 .. (size - 1) : IsSet(i)
           /\ origin.kind = "new" => last.res = <<"ok", FALSE>>
    /\ (last.op = "set" /\ last.res = <<"ok">> /\ last.val) => any(Self)

C14_Witness ==
    /\ last.op = "any"
    /\ last.res = <<"ok", TRUE>>
    /\ size = 65
    /\ blocks[1] = {}
    /\ IsSet(64)

====
